---- MODULE Spec2Model ----
(***************************************************************************)
(* A model of content.js: the rewrite engine (SEARCH_REGEX and             *)
(* String.prototype.replace), the eligibility filter (shouldSkipNode), the *)
(* sweep (processNodes), the start-up code and the MutationObserver        *)
(* callback, run against a small live document that the host page mutates. *)
(* Text is a sequence of one-character strings.                            *)
(***************************************************************************)
EXTENDS Integers, Sequences, FiniteSets, TLC

(***************************************************************************)
(* Bounds of the model.                                                    *)
(***************************************************************************)
\* fragments concatenated into one input of the rewrite engine
MaxFrags == 2
\* nodes the host may create after the initial document
MaxNewNodes == 4
\* host mutations (insertions and text edits) in one run
MaxHostOps == 2

(***************************************************************************)
(* The rewrite engine: content.js lines 3-8 and 48-49.                     *)
(***************************************************************************)
TEXT_TO_FIND ==
    <<"G","u","l","f"," ","o","f"," ","A","m","e","r","i","c","a">>

TEXT_TO_REPLACE_WITH ==
    <<"G","u","l","f"," ","o","f"," ","M","e","x","i","c","o">>

\* the class [.*+?^${}()|[\]\\] of the escaping regex
SyntaxCharacters ==
    {".", "*", "+", "?", "^", "$", "{", "}", "(", ")", "|", "[", "]", "\\"}

\* s.replace(/[.*+?^${}()|[\]\\]/g, '\\$&'): a backslash before every
\* syntax character
RECURSIVE EscapeRegExp(_)
EscapeRegExp(s) ==
    IF s = <<>> THEN <<>>
    ELSE (IF Head(s) \in SyntaxCharacters THEN <<"\\", Head(s)>> ELSE <<Head(s)>>)
         \o EscapeRegExp(Tail(s))

\* new RegExp(source): the atoms of a source made of literal characters and
\* identity escapes
RECURSIVE PatternAtoms(_)
PatternAtoms(src) ==
    IF src = <<>> THEN <<>>
    ELSE IF Head(src) = "\\" /\ Len(src) >= 2
         THEN <<src[2]>> \o PatternAtoms(Tail(Tail(src)))
         ELSE <<Head(src)>> \o PatternAtoms(Tail(src))

SEARCH_REGEX == PatternAtoms(EscapeRegExp(TEXT_TO_FIND))

ToUpperCaseMap ==
    ("a" :> "A") @@ ("b" :> "B") @@ ("c" :> "C") @@ ("d" :> "D") @@
    ("e" :> "E") @@ ("f" :> "F") @@ ("g" :> "G") @@ ("h" :> "H") @@
    ("i" :> "I") @@ ("j" :> "J") @@ ("k" :> "K") @@ ("l" :> "L") @@
    ("m" :> "M") @@ ("n" :> "N") @@ ("o" :> "O") @@ ("p" :> "P") @@
    ("q" :> "Q") @@ ("r" :> "R") @@ ("s" :> "S") @@ ("t" :> "T") @@
    ("u" :> "U") @@ ("v" :> "V") @@ ("w" :> "W") @@ ("x" :> "X") @@
    ("y" :> "Y") @@ ("z" :> "Z")

\* a case-sensitive comparison: the regex without its i flag
CanonicalizeCaseSensitive(ch) == ch

\* the i flag: both sides of a comparison are upper-cased, character by
\* character
Canonicalize(ch) ==
    IF ch \in DOMAIN ToUpperCaseMap THEN ToUpperCaseMap[ch] ELSE ch

\* the regex matches the characters of s that start at index i
MatchesAt(s, i) ==
    /\ i + Len(SEARCH_REGEX) - 1 <= Len(s)
    /\ \A k \in 1..Len(SEARCH_REGEX) :
           Canonicalize(s[i + k - 1]) = Canonicalize(SEARCH_REGEX[k])

\* a replace that stops after its first match: the regex without its g flag
RECURSIVE ReplaceFirstFrom(_, _)
ReplaceFirstFrom(s, i) ==
    IF i > Len(s) THEN <<>>
    ELSE IF MatchesAt(s, i)
         THEN TEXT_TO_REPLACE_WITH \o SubSeq(s, i + Len(SEARCH_REGEX), Len(s))
         ELSE <<s[i]>> \o ReplaceFirstFrom(s, i + 1)

\* a replace whose replacement follows the case of the first matched letter
RECURSIVE ReplaceKeepingCase(_, _)
ReplaceKeepingCase(s, i) ==
    IF i > Len(s) THEN <<>>
    ELSE IF MatchesAt(s, i)
         THEN (IF s[i] \in DOMAIN ToUpperCaseMap
               THEN <<"g">> \o Tail(TEXT_TO_REPLACE_WITH)
               ELSE TEXT_TO_REPLACE_WITH)
              \o ReplaceKeepingCase(s, i + Len(SEARCH_REGEX))
         ELSE <<s[i]>> \o ReplaceKeepingCase(s, i + 1)

\* the g flag: scan from index i, replace a match and go on after its end,
\* copy any other character
RECURSIVE ReplaceFrom(_, _)
ReplaceFrom(s, i) ==
    IF i > Len(s) THEN <<>>
    ELSE IF MatchesAt(s, i)
         THEN TEXT_TO_REPLACE_WITH \o ReplaceFrom(s, i + Len(SEARCH_REGEX))
         ELSE <<s[i]>> \o ReplaceFrom(s, i + 1)

\* originalValue.replace(SEARCH_REGEX, TEXT_TO_REPLACE_WITH); replace starts
\* a global regex at lastIndex 0
Replace(originalValue) == ReplaceFrom(originalValue, 1)


(***************************************************************************)
(* The live document.  A node is a number; node n exists when              *)
(* n <= Len(nodeType).  The initial document is                            *)
(*   #document > HTML > BODY > P > "Gulf of America"                       *)
(*                           > CODE > SPAN > SPAN > text                   *)
(*                           > DIV contenteditable > text                  *)
(*                           > SCRIPT > text                               *)
(*                           > PRE > text                                  *)
(***************************************************************************)
NULL == 0

MixedText ==
    <<"a","G","U","L","F"," ","O","F"," ","A","M","E","R","I","C","A",
      "g","u","l","f"," ","o","f"," ","a","m","e","r","i","c","a",".">>

PlainText == <<"G","u","l","f"," ","o","f"," ","A","m","e","r">>

InitialNodeType ==
    <<"DOCUMENT_NODE", "ELEMENT_NODE", "ELEMENT_NODE",
      "ELEMENT_NODE", "TEXT_NODE",
      "ELEMENT_NODE", "ELEMENT_NODE", "ELEMENT_NODE", "TEXT_NODE",
      "ELEMENT_NODE", "TEXT_NODE",
      "ELEMENT_NODE", "TEXT_NODE",
      "ELEMENT_NODE", "TEXT_NODE">>

\* tag names as the tagName property reads them: HTML elements in upper case,
\* an SVG element in the case of its markup
HashDocument == <<"#","d","o","c","u","m","e","n","t">>
HashText == <<"#","t","e","x","t">>
TagHTML == <<"H","T","M","L">>
TagBODY == <<"B","O","D","Y">>
TagP == <<"P">>
TagB == <<"B">>
TagCODE == <<"C","O","D","E">>
TagSPAN == <<"S","P","A","N">>
TagDIV == <<"D","I","V">>
TagSCRIPT == <<"S","C","R","I","P","T">>
TagPRE == <<"P","R","E">>
TagSvg == <<"s","v","g">>
TagINPUT == <<"I","N","P","U","T">>
HashComment == <<"#","c","o","m","m","e","n","t">>

\* what tagName reads on a form that holds a control named "tagName": the
\* control, not a string
ClobberedTagName == <<"[object HTMLInputElement]">>

InitialTagName ==
    <<HashDocument, TagHTML, TagBODY,
      TagP, HashText,
      TagCODE, TagSPAN, TagSPAN, HashText,
      TagDIV, HashText,
      TagSCRIPT, HashText,
      TagPRE, HashText>>

InitialContentEditable ==
    <<"inherit", "inherit", "inherit",
      "inherit", "inherit",
      "inherit", "inherit", "inherit", "inherit",
      "true", "inherit",
      "inherit", "inherit",
      "inherit", "inherit">>

InitialParentNode ==
    <<NULL, 1, 2,
      3, 4,
      3, 6, 7, 8,
      3, 10,
      3, 12,
      3, 14>>

InitialChildNodes ==
    <<<<2>>, <<3>>, <<4, 6, 10, 12, 14>>,
      <<5>>, <<>>,
      <<7>>, <<8>>, <<9>>, <<>>,
      <<11>>, <<>>,
      <<13>>, <<>>,
      <<15>>, <<>>>>

InitialNodeValue ==
    <<<<>>, <<>>, <<>>,
      <<>>, TEXT_TO_FIND,
      <<>>, <<>>, <<>>, MixedText,
      <<>>, TEXT_TO_FIND,
      <<>>, MixedText,
      <<>>, MixedText>>

\* the document node
DocumentNode ==
    CHOOSE n \in DOMAIN InitialNodeType : InitialNodeType[n] = "DOCUMENT_NODE"

\* the element document.body names once the parser has reached it
BodyElement == CHOOSE n \in DOMAIN InitialTagName : InitialTagName[n] = TagBODY

\* what the host writes into text nodes
HostValues == {MixedText, PlainText}

\* the elements the host appends new children to: the body, the inner SPAN
\* of the CODE container, the editable DIV
InsertionPoints == {3, 8, 10}

\* the subtrees the host inserts, in document order; up is the place in the
\* shape of a node's parent, 0 for the insertion point
TextShape ==
    <<[type |-> "TEXT_NODE", tag |-> HashText, ce |-> "inherit", up |-> 0]>>

PreShape ==
    <<[type |-> "ELEMENT_NODE", tag |-> TagPRE, ce |-> "inherit", up |-> 0],
      [type |-> "TEXT_NODE", tag |-> HashText, ce |-> "inherit", up |-> 1]>>

SvgShape ==
    <<[type |-> "ELEMENT_NODE", tag |-> TagSvg, ce |-> "inherit", up |-> 0],
      [type |-> "TEXT_NODE", tag |-> HashText, ce |-> "inherit", up |-> 1]>>

DivShape ==
    <<[type |-> "ELEMENT_NODE", tag |-> TagDIV, ce |-> "inherit", up |-> 0],
      [type |-> "TEXT_NODE", tag |-> HashText, ce |-> "inherit", up |-> 1],
      [type |-> "ELEMENT_NODE", tag |-> TagB, ce |-> "inherit", up |-> 1],
      [type |-> "TEXT_NODE", tag |-> HashText, ce |-> "inherit", up |-> 3]>>

Shapes == {TextShape, PreShape, SvgShape, DivShape}

\* <form><input name="tagName">text</form>: the form's named control shadows
\* its tagName property
FormShape ==
    <<[type |-> "ELEMENT_NODE", tag |-> ClobberedTagName, ce |-> "inherit", up |-> 0],
      [type |-> "ELEMENT_NODE", tag |-> TagINPUT, ce |-> "inherit", up |-> 1],
      [type |-> "TEXT_NODE", tag |-> HashText, ce |-> "inherit", up |-> 1]>>

\* <!-- comment -->
CommentShape ==
    <<[type |-> "COMMENT_NODE", tag |-> HashComment, ce |-> "inherit", up |-> 0]>>

\* parent.append(<pre>text</pre>, <p>text</p>): two nodes added at once
PairShape ==
    <<[type |-> "ELEMENT_NODE", tag |-> TagPRE, ce |-> "inherit", up |-> 0],
      [type |-> "TEXT_NODE", tag |-> HashText, ce |-> "inherit", up |-> 1],
      [type |-> "ELEMENT_NODE", tag |-> TagP, ce |-> "inherit", up |-> 0],
      [type |-> "TEXT_NODE", tag |-> HashText, ce |-> "inherit", up |-> 3]>>

VARIABLES
    nodeType,        \* node -> DOCUMENT_NODE, ELEMENT_NODE, TEXT_NODE or
                     \*         COMMENT_NODE
    tagName,         \* node -> what its tagName property reads, as characters
    contentEditable, \* node -> its contenteditable attribute
    parentNode,      \* node -> its parent, or NULL
    childNodes,      \* node -> its children, in order
    nodeValue,       \* node -> its character data
    documentBody,    \* document.body: NULL until the body is available
    pc,              \* where the content script is
    sweepCount,      \* runs of processNodes(document.body) by the start-up code
    observeCount,    \* calls of observer.observe
    pageNotified,    \* a DOMContentLoaded listener wrote to the document
    queue,           \* the observer's record queue
    log,             \* what the last run of the script visited, read and wrote
    uncaught,        \* exceptions that left the observer's callback
    hostOps,         \* host mutations so far
    unseenOps,       \* host mutations made after the sweep, before observe
    text,            \* rewrite engine alone: the input
    once,            \* rewrite(text)
    twice,           \* rewrite(rewrite(text))
    stage            \* rewrite engine alone: how many times it was applied

treeVars == <<nodeType, tagName, contentEditable, parentNode, childNodes>>
lifeVars == <<documentBody, pc, sweepCount, observeCount, pageNotified>>
engineVars == <<text, once, twice, stage>>
hostVars == <<hostOps, unseenOps>>
vars == <<treeVars, nodeValue, lifeVars, queue, log, uncaught, hostVars, engineVars>>


(***************************************************************************)
(* The eligibility filter: content.js lines 12-37.                         *)
(***************************************************************************)
EXCLUDED_TAGS ==
    { <<"S","C","R","I","P","T">>, <<"S","T","Y","L","E">>,
      <<"N","O","S","C","R","I","P","T">>, <<"T","E","X","T","A","R","E","A">>,
      <<"I","N","P","U","T">>, <<"I","F","R","A","M","E">>,
      <<"C","A","N","V","A","S">>, <<"C","O","D","E">>, <<"S","V","G">>,
      <<"M","A","T","H">> }

\* String.prototype.toUpperCase
ToUpperCase(str) == [k \in DOMAIN str |-> Canonicalize(str[k])]

\* Element.isContentEditable: the element's own contenteditable state, or
\* the state it inherits from its parent
RECURSIVE IsContentEditable(_)
IsContentEditable(node) ==
    /\ node # NULL
    /\ nodeType[node] = "ELEMENT_NODE"
    /\ \/ contentEditable[node] = "true"
       \/ /\ contentEditable[node] = "inherit"
          /\ IsContentEditable(parentNode[node])

\* the while loop of shouldSkipNode from currentElement on: "true", "false",
\* or "TypeError" when tagName.toUpperCase is not a function
RECURSIVE SkipFrom(_)
SkipFrom(currentElement) ==
    IF currentElement = NULL \/ nodeType[currentElement] # "ELEMENT_NODE"
    THEN "false"
    ELSE IF tagName[currentElement] = ClobberedTagName THEN "TypeError"
    ELSE IF ToUpperCase(tagName[currentElement]) \in EXCLUDED_TAGS THEN "true"
    ELSE IF IsContentEditable(currentElement) THEN "true"
    ELSE SkipFrom(parentNode[currentElement])

\* a filter that looks at the parent alone
ShouldSkipNodeParentOnly(textNode) ==
    LET currentElement == parentNode[textNode] IN
    IF currentElement = NULL \/ nodeType[currentElement] # "ELEMENT_NODE"
    THEN "false"
    ELSE IF ToUpperCase(tagName[currentElement]) \in EXCLUDED_TAGS THEN "true"
    ELSE IF IsContentEditable(currentElement) THEN "true"
    ELSE "false"

shouldSkipNode(textNode) == SkipFrom(parentNode[textNode])

(***************************************************************************)
(* The change feed.  observer.observe(document.body, {childList, subtree,  *)
(* characterData}) makes every insertion under the body and every          *)
(* character-data change under it append a record to the observer's queue. *)
(***************************************************************************)
RECURSIVE IsInclusiveDescendant(_, _)
IsInclusiveDescendant(node, root) ==
    \/ node = root
    \/ /\ parentNode[node] # NULL
       /\ IsInclusiveDescendant(parentNode[node], root)

Observed(node) ==
    /\ observeCount > 0
    /\ documentBody # NULL
    /\ IsInclusiveDescendant(node, documentBody)

ChildListRecord(target, nodes, who) ==
    [type |-> "childList", target |-> target, addedNodes |-> nodes, by |-> who]

CharacterDataRecord(target, who) ==
    [type |-> "characterData", target |-> target, addedNodes |-> <<>>, by |-> who]

(***************************************************************************)
(* One run of the script threads a record st through its steps:            *)
(*   value  the character data of every node,                              *)
(*   out    the records its writes queued,                                 *)
(*   log    what it collected, read and wrote, in order,                   *)
(*   thrown whether an exception is propagating.                           *)
(***************************************************************************)
StartOfRun ==
    [value |-> nodeValue, out |-> <<>>, log |-> <<>>, thrown |-> FALSE]

LogEntry(op, node, ev, root) ==
    [op |-> op, node |-> node, ev |-> ev, root |-> root]

\* a write without the newValue !== originalValue test
WriteAlways(st, textNode, ev, root) ==
    LET originalValue == st.value[textNode]
        newValue == Replace(originalValue)
    IN  [st EXCEPT !.value[textNode] = newValue,
                   !.out = IF Observed(textNode)
                           THEN Append(@, CharacterDataRecord(textNode, "script"))
                           ELSE @,
                   !.log = @ \o <<LogEntry("read", textNode, ev, root),
                                  LogEntry("write", textNode, ev, root)>>]

\* lines 48-53: read the value, replace, write it back when it differs; the
\* write queues a characterData record when the node is observed
ReplaceInTextNode(st, textNode, ev, root) ==
    LET originalValue == st.value[textNode]
        newValue == Replace(originalValue)
    IN  IF newValue # originalValue
        THEN [st EXCEPT !.value[textNode] = newValue,
                        !.out = IF Observed(textNode)
                                THEN Append(@, CharacterDataRecord(textNode, "script"))
                                ELSE @,
                        !.log = @ \o <<LogEntry("read", textNode, ev, root),
                                       LogEntry("write", textNode, ev, root)>>]
        ELSE [st EXCEPT !.log = Append(@, LogEntry("read", textNode, ev, root))]

\* lines 43-54
checkAndReplaceInTextNode(st, textNode, ev, root) ==
    LET skip == shouldSkipNode(textNode) IN
    IF skip = "TypeError" THEN [st EXCEPT !.thrown = TRUE]
    ELSE IF skip = "true" THEN st
    ELSE ReplaceInTextNode(st, textNode, ev, root)

\* the text nodes below the nodes of a child list, in document order
RECURSIVE TextNodesIn(_)
TextNodesIn(nodes) ==
    IF nodes = <<>> THEN <<>>
    ELSE (IF nodeType[Head(nodes)] = "TEXT_NODE"
          THEN <<Head(nodes)>>
          ELSE TextNodesIn(childNodes[Head(nodes)]))
         \o TextNodesIn(Tail(nodes))

\* lines 71-83: createTreeWalker(rootNode, SHOW_TEXT) and the nextNode()
\* loop; nextNode() moves on from the root and never returns it
TreeWalkerNodes(rootNode) == TextNodesIn(childNodes[rootNode])

\* line 85: nodesToModify.forEach(checkAndReplaceInTextNode); an exception
\* ends the loop.  (Each step's result is bound by a set, here and below,
\* so that it is computed once.)
RECURSIVE ForEachNode(_, _, _, _)
ForEachNode(st, nodes, ev, root) ==
    IF nodes = <<>> \/ st.thrown THEN st
    ELSE CHOOSE last \in
             {ForEachNode(next, Tail(nodes), ev, root) :
                next \in {checkAndReplaceInTextNode(st, Head(nodes), ev, root)}} :
             TRUE

\* a walk that replaces in each text node as soon as nextNode() returns it
RECURSIVE WalkAndReplace(_, _, _, _)
WalkAndReplace(st, nodes, ev, root) ==
    IF nodes = <<>> \/ st.thrown THEN st
    ELSE CHOOSE last \in
             {WalkAndReplace(next, Tail(nodes), ev, root) :
                next \in {checkAndReplaceInTextNode(
                              [st EXCEPT !.log = Append(@,
                                   LogEntry("collect", Head(nodes), ev, root))],
                              Head(nodes), ev, root)}} :
             TRUE

\* a sweep in one phase
processNodesWhileWalking(st, rootNode, ev) ==
    IF rootNode = NULL THEN st
    ELSE IF nodeType[rootNode] = "ELEMENT_NODE"
            /\ (\/ ToUpperCase(tagName[rootNode]) \in EXCLUDED_TAGS
                \/ IsContentEditable(rootNode))
    THEN st
    ELSE WalkAndReplace(st, TreeWalkerNodes(rootNode), ev, rootNode)

\* a sweep whose root check still has PRE in its list of tags
processNodesExcludingPre(st, rootNode, ev) ==
    IF rootNode = NULL THEN st
    ELSE IF nodeType[rootNode] = "ELEMENT_NODE"
            /\ (\/ ToUpperCase(tagName[rootNode]) \in EXCLUDED_TAGS \cup {TagPRE}
                \/ IsContentEditable(rootNode))
    THEN st
    ELSE CHOOSE last \in
             {ForEachNode(
                  [st EXCEPT !.log = @ \o [k \in DOMAIN nodesToModify |->
                       LogEntry("collect", nodesToModify[k], ev, rootNode)]],
                  nodesToModify, ev, rootNode) :
                nodesToModify \in {TreeWalkerNodes(rootNode)}} :
             TRUE

\* lines 60-86
processNodes(st, rootNode, ev) ==
    IF rootNode = NULL THEN st
    ELSE IF nodeType[rootNode] = "ELEMENT_NODE"
            /\ tagName[rootNode] = ClobberedTagName
    THEN [st EXCEPT !.thrown = TRUE]
    ELSE IF nodeType[rootNode] = "ELEMENT_NODE"
            /\ (\/ ToUpperCase(tagName[rootNode]) \in EXCLUDED_TAGS
                \/ IsContentEditable(rootNode))
    THEN st
    ELSE CHOOSE last \in
             {ForEachNode(
                  [st EXCEPT !.log = @ \o [k \in DOMAIN nodesToModify |->
                       LogEntry("collect", nodesToModify[k], ev, rootNode)]],
                  nodesToModify, ev, rootNode) :
                nodesToModify \in {TreeWalkerNodes(rootNode)}} :
             TRUE

\* lines 108-110: mutation.addedNodes.forEach(processNodes)
RECURSIVE ForEachAdded(_, _, _)
ForEachAdded(st, addedNodes, ev) ==
    IF addedNodes = <<>> \/ st.thrown THEN st
    ELSE CHOOSE last \in
             {ForEachAdded(next, Tail(addedNodes), ev) :
                next \in {processNodes(st, Head(addedNodes), ev)}} :
             TRUE

\* a callback that answers a characterData record by sweeping the body again
RECURSIVE ForEachMutationSweepingBody(_, _, _)
ForEachMutationSweepingBody(st, mutationsList, ev) ==
    IF ev > Len(mutationsList) \/ st.thrown THEN st
    ELSE LET mutation == mutationsList[ev] IN
         CHOOSE last \in
             {ForEachMutationSweepingBody(next, mutationsList, ev + 1) :
                next \in {IF mutation.type = "childList"
                          THEN ForEachAdded(st, mutation.addedNodes, ev)
                          ELSE processNodes(st, documentBody, ev)}} :
             TRUE

\* the records of one type, from record ev on
RECURSIVE ForEachOfType(_, _, _, _)
ForEachOfType(st, mutationsList, ev, type) ==
    IF ev > Len(mutationsList) \/ st.thrown THEN st
    ELSE LET mutation == mutationsList[ev] IN
         CHOOSE last \in
             {ForEachOfType(next, mutationsList, ev + 1, type) :
                next \in {IF mutation.type # type THEN st
                          ELSE IF type = "childList"
                          THEN ForEachAdded(st, mutation.addedNodes, ev)
                          ELSE checkAndReplaceInTextNode(st, mutation.target, ev,
                                                         mutation.target)}} :
             TRUE

\* a callback that handles the childList records of a batch first and its
\* characterData records after them
ForEachMutationAddedFirst(st, mutationsList, ev) ==
    CHOOSE last \in
        {ForEachOfType(added, mutationsList, ev, "characterData") :
           added \in {ForEachOfType(st, mutationsList, ev, "childList")}} :
        TRUE

\* lines 105-115: the records of one batch from record ev on, in order; an
\* exception leaves the loop and the callback
RECURSIVE ForEachMutation(_, _, _)
ForEachMutation(st, mutationsList, ev) ==
    IF ev > Len(mutationsList) \/ st.thrown THEN st
    ELSE LET mutation == mutationsList[ev] IN
         CHOOSE last \in
             {ForEachMutation(next, mutationsList, ev + 1) :
                next \in {IF mutation.type = "childList"
                          THEN ForEachAdded(st, mutation.addedNodes, ev)
                          ELSE IF mutation.type = "characterData"
                          THEN checkAndReplaceInTextNode(st, mutation.target, ev,
                                                         mutation.target)
                          ELSE st}} :
             TRUE


(***************************************************************************)
(* The content script.                                                     *)
(***************************************************************************)
HasWrite(entries) == \E k \in DOMAIN entries : entries[k].op = "write"

\* a start-up that registers its DOMContentLoaded listeners even when it has
\* swept and subscribed at once
MainAlsoListens ==
    /\ pc = "start"
    /\ pc' = "waiting"
    /\ IF documentBody # NULL
       THEN \E st \in {processNodes(StartOfRun, documentBody, 0)} :
            /\ nodeValue' = st.value
            /\ log' = st.log
            /\ sweepCount' = sweepCount + 1
            /\ observeCount' = observeCount + 1
       ELSE UNCHANGED <<nodeValue, log, sweepCount, observeCount>>
    /\ UNCHANGED <<treeVars, documentBody, pageNotified, queue, uncaught,
                   hostVars, engineVars>>

\* lines 92-141, run to completion when the script is injected: sweep and
\* observe at once when document.body is there, two DOMContentLoaded
\* listeners otherwise
Main ==
    /\ pc = "start"
    /\ IF documentBody # NULL
       THEN \E st \in {processNodes(StartOfRun, documentBody, 0)} :
            /\ nodeValue' = st.value
            /\ log' = st.log
            /\ sweepCount' = sweepCount + 1
            /\ observeCount' = observeCount + 1
            /\ pc' = "done"
       ELSE /\ pc' = "waiting"
            /\ UNCHANGED <<nodeValue, log, sweepCount, observeCount>>
    /\ UNCHANGED <<treeVars, documentBody, pageNotified, queue, uncaught,
                   hostVars, engineVars>>

\* lines 96-100: the first DOMContentLoaded listener
DOMContentLoadedSweep ==
    /\ pc = "waiting"
    /\ pc' = "between"
    /\ IF documentBody # NULL
       THEN \E st \in {processNodes(StartOfRun, documentBody, 0)} :
            /\ nodeValue' = st.value
            /\ log' = st.log
            /\ sweepCount' = sweepCount + 1
            /\ pageNotified' = HasWrite(st.log)
       ELSE UNCHANGED <<nodeValue, log, sweepCount, pageNotified>>
    /\ UNCHANGED <<treeVars, documentBody, observeCount, queue, uncaught,
                   hostVars, engineVars>>

\* lines 129-137: the second DOMContentLoaded listener
DOMContentLoadedObserve ==
    /\ pc = "between"
    /\ pc' = "done"
    /\ observeCount' = IF documentBody # NULL THEN observeCount + 1
                       ELSE observeCount
    /\ pageNotified' = FALSE
    /\ log' = <<>>
    /\ UNCHANGED <<treeVars, nodeValue, documentBody, sweepCount, queue,
                   uncaught, hostVars, engineVars>>

\* a callback that writes with parentNode.textContent = newValue: the parent
\* of a written node keeps that node as its only child
ObserverCallbackViaTextContent ==
    /\ queue # <<>>
    /\ \E st \in {ForEachMutation(StartOfRun, queue, 1)} :
       LET written == {st.log[k].node : k \in {j \in DOMAIN st.log :
                                                  st.log[j].op = "write"}}
           emptied == {parentNode[t] : t \in written}
       IN  /\ nodeValue' = st.value
           /\ queue' = st.out
           /\ log' = st.log
           /\ uncaught' = IF st.thrown THEN uncaught + 1 ELSE uncaught
           /\ childNodes' = [n \in DOMAIN childNodes |->
                  IF n \in emptied
                  THEN SelectSeq(childNodes[n], LAMBDA m : m \in written)
                  ELSE childNodes[n]]
           /\ parentNode' = [m \in DOMAIN parentNode |->
                  IF parentNode[m] \in emptied /\ m \notin written
                  THEN NULL ELSE parentNode[m]]
    /\ UNCHANGED <<nodeType, tagName, contentEditable, lifeVars, hostVars,
                   engineVars>>

\* lines 104-116: the observer's callback is handed the whole queue as one
\* batch; the records its own writes queue make the next batch
ObserverCallback ==
    /\ queue # <<>>
    /\ \E st \in {ForEachMutation(StartOfRun, queue, 1)} :
       /\ nodeValue' = st.value
       /\ queue' = st.out
       /\ log' = st.log
       /\ uncaught' = IF st.thrown THEN uncaught + 1 ELSE uncaught
    /\ UNCHANGED <<treeVars, lifeVars, hostVars, engineVars>>

(***************************************************************************)
(* The host page.  Its scripts run between the runs of the content script; *)
(* between the two DOMContentLoaded listeners only a microtask can run,    *)
(* and the page has one (its own observer's callback) only when the first  *)
(* listener wrote to the document.                                         *)
(***************************************************************************)
HostCanRun ==
    /\ documentBody # NULL
    /\ hostOps < MaxHostOps
    /\ pc = "between" => pageNotified

\* one more host mutation; it is unseen when it falls between the sweep and
\* the call of observe
HostMoves ==
    /\ hostOps' = hostOps + 1
    /\ unseenOps' = IF pc = "between" THEN unseenOps + 1 ELSE unseenOps
    /\ log' = <<>>

\* the parser, or a script, makes document.body available
HostParseBody ==
    /\ documentBody = NULL
    /\ pc \in {"waiting", "done"}
    /\ documentBody' = BodyElement
    /\ log' = <<>>
    /\ UNCHANGED <<treeVars, nodeValue, pc, sweepCount, observeCount,
                   pageNotified, queue, uncaught, hostVars, engineVars>>

\* node is in the document
IsConnected(node) == IsInclusiveDescendant(node, DocumentNode)

\* the document after parent.append(the roots of new subtrees of this
\* shape, their text and comment nodes holding value): one record
\* whose addedNodes are the roots
AppendSubtree(parent, shape, value) ==
    LET base == Len(nodeType)
        new == [k \in DOMAIN shape |-> base + k]
        parentOf(k) == IF shape[k].up = 0 THEN parent ELSE base + shape[k].up
        kidsOf(n) == SelectSeq(new, LAMBDA m : parentOf(m - base) = n)
    IN  /\ nodeType' = nodeType \o [k \in DOMAIN shape |-> shape[k].type]
        /\ tagName' = tagName \o [k \in DOMAIN shape |-> shape[k].tag]
        /\ contentEditable' =
               contentEditable \o [k \in DOMAIN shape |-> shape[k].ce]
        /\ parentNode' = parentNode \o [k \in DOMAIN shape |-> parentOf(k)]
        /\ childNodes' =
               [n \in DOMAIN childNodes |-> childNodes[n] \o kidsOf(n)]
               \o [k \in DOMAIN shape |-> kidsOf(base + k)]
        /\ nodeValue' =
               nodeValue \o [k \in DOMAIN shape |->
                                IF shape[k].type = "ELEMENT_NODE" THEN <<>>
                                ELSE value]
        /\ queue' = IF Observed(parent)
                    THEN Append(queue, ChildListRecord(parent, kidsOf(parent), "host"))
                    ELSE queue

\* the page inserts a new subtree under an element of the body
HostAppendChild ==
    /\ HostCanRun
    /\ \E parent \in InsertionPoints, shape \in Shapes, value \in HostValues :
          /\ IsConnected(parent)
          /\ Len(nodeType) + Len(shape) <= Len(InitialNodeType) + MaxNewNodes
          /\ AppendSubtree(parent, shape, value)
    /\ HostMoves
    /\ UNCHANGED <<lifeVars, uncaught, engineVars>>

\* the page sets the data of a text node
HostSetData ==
    /\ HostCanRun
    /\ \E node \in DOMAIN nodeType, value \in HostValues :
          /\ nodeType[node] = "TEXT_NODE"
          /\ IsConnected(node)
          /\ nodeValue' = [nodeValue EXCEPT ![node] = value]
          /\ queue' = IF Observed(node)
                      THEN Append(queue, CharacterDataRecord(node, "host"))
                      ELSE queue
    /\ HostMoves
    /\ UNCHANGED <<treeVars, lifeVars, uncaught, engineVars>>

\* the page inserts, under an observed element, a form whose control is
\* named "tagName"
HostAppendForm ==
    /\ HostCanRun
    /\ observeCount > 0
    /\ \E parent \in InsertionPoints, value \in HostValues :
          /\ Len(nodeType) + Len(FormShape) <= Len(InitialNodeType) + MaxNewNodes
          /\ AppendSubtree(parent, FormShape, value)
    /\ HostMoves
    /\ UNCHANGED <<lifeVars, uncaught, engineVars>>

(***************************************************************************)
(* More of the host page: comments, several nodes added at once, removal   *)
(* and moving of nodes, and the contenteditable attribute.  The host       *)
(* mutates connected nodes only.                                           *)
(***************************************************************************)
\* the page appends a comment, or two elements with one call of append, to
\* the body
HostAppendOther ==
    /\ HostCanRun
    /\ \E parent \in {BodyElement}, shape \in {CommentShape, PairShape},
          value \in HostValues :
          /\ IsConnected(parent)
          /\ Len(nodeType) + Len(shape) <= Len(InitialNodeType) + MaxNewNodes
          /\ AppendSubtree(parent, shape, value)
    /\ HostMoves
    /\ UNCHANGED <<lifeVars, uncaught, engineVars>>

\* the page sets the data of a comment
HostSetCommentData ==
    /\ HostCanRun
    /\ \E node \in DOMAIN nodeType, value \in HostValues :
          /\ nodeType[node] = "COMMENT_NODE"
          /\ IsConnected(node)
          /\ nodeValue' = [nodeValue EXCEPT ![node] = value]
          /\ queue' = IF Observed(node)
                      THEN Append(queue, CharacterDataRecord(node, "host"))
                      ELSE queue
    /\ HostMoves
    /\ UNCHANGED <<treeVars, lifeVars, uncaught, engineVars>>

\* the nodes the page removes and moves: the PRE of the initial document and
\* the roots of what it inserted
Movable ==
    {n \in DOMAIN nodeType :
        /\ n > Len(InitialNodeType) \/ tagName[n] = TagPRE
        /\ parentNode[n] \in InsertionPoints \cup {NULL}}

\* parent.removeChild(node): a childList record without added nodes
HostRemoveChild ==
    /\ HostCanRun
    /\ \E node \in Movable :
          /\ IsConnected(node)
          /\ parentNode' = [parentNode EXCEPT ![node] = NULL]
          /\ childNodes' = [childNodes EXCEPT ![parentNode[node]] =
                                SelectSeq(@, LAMBDA m : m # node)]
          /\ queue' = IF Observed(parentNode[node])
                      THEN Append(queue, ChildListRecord(parentNode[node], <<>>, "host"))
                      ELSE queue
    /\ HostMoves
    /\ UNCHANGED <<nodeType, tagName, contentEditable, nodeValue, lifeVars,
                   uncaught, engineVars>>

\* parent.appendChild(node) for a node that exists: it leaves its old parent,
\* if it has one (a record without added nodes), and becomes the last child
\* of the new one (a record with the node added)
HostMoveChild ==
    /\ HostCanRun
    /\ \E node \in Movable, parent \in InsertionPoints :
          /\ IsConnected(parent)
          /\ parent # parentNode[node]
          /\ parentNode' = [parentNode EXCEPT ![node] = parent]
          /\ childNodes' =
                 [n \in DOMAIN childNodes |->
                     IF n = parent THEN Append(childNodes[n], node)
                     ELSE IF n = parentNode[node]
                     THEN SelectSeq(childNodes[n], LAMBDA m : m # node)
                     ELSE childNodes[n]]
          /\ queue' =
                 queue
                 \o (IF parentNode[node] # NULL /\ Observed(parentNode[node])
                     THEN <<ChildListRecord(parentNode[node], <<>>, "host")>>
                     ELSE <<>>)
                 \o (IF Observed(parent)
                     THEN <<ChildListRecord(parent, <<node>>, "host")>>
                     ELSE <<>>)
    /\ HostMoves
    /\ UNCHANGED <<nodeType, tagName, contentEditable, nodeValue, lifeVars,
                   uncaught, engineVars>>

\* the elements that carry a contenteditable attribute
EditingHosts ==
    {n \in DOMAIN InitialContentEditable : InitialContentEditable[n] = "true"}

\* the page removes or restores a contenteditable attribute; observe was not
\* asked for attributes, so no record is queued
HostSetContentEditable ==
    /\ HostCanRun
    /\ \E element \in EditingHosts, value \in {"true", "inherit"} :
          /\ IsConnected(element)
          /\ value # contentEditable[element]
          /\ contentEditable' = [contentEditable EXCEPT ![element] = value]
    /\ HostMoves
    /\ UNCHANGED <<nodeType, tagName, parentNode, childNodes, nodeValue,
                   lifeVars, queue, uncaught, engineVars>>

(***************************************************************************)
(* The rewrite engine on its own: inputs put together from fragments.      *)
(***************************************************************************)
Fragments ==
    { TEXT_TO_FIND,
      <<"g","u","l","f"," ","o","f"," ","a","m","e","r","i","c","a">>,
      <<"G","U","L","F"," ","O","F"," ","A","M","E","R","I","C","A">>,
      TEXT_TO_REPLACE_WITH,
      <<"G","u","l","f"," ","o","f"," ">>,
      <<"A","m","e","r","i","c","a">>,
      <<"G">>,
      <<"u","l","F"," ","o","f"," ","A","M","E","R","I","C","A">>,
      <<".">> }

RECURSIVE InputsOf(_)
InputsOf(n) ==
    IF n = 0 THEN {<<>>}
    ELSE LET shorter == InputsOf(n - 1) IN
         shorter \cup {s \o f : s \in shorter, f \in Fragments}

Inputs == InputsOf(MaxFrags)

Rewrite ==
    /\ stage = 0
    /\ once' = Replace(text)
    /\ stage' = 1
    /\ UNCHANGED <<treeVars, nodeValue, lifeVars, queue, log, uncaught,
                   hostVars, text, twice>>

RewriteAgain ==
    /\ stage = 1
    /\ twice' = Replace(once)
    /\ stage' = 2
    /\ UNCHANGED <<treeVars, nodeValue, lifeVars, queue, log, uncaught,
                   hostVars, text, once>>

(***************************************************************************)
(* Specifications.                                                         *)
(***************************************************************************)
InitDocument ==
    /\ nodeType = InitialNodeType
    /\ tagName = InitialTagName
    /\ contentEditable = InitialContentEditable
    /\ parentNode = InitialParentNode
    /\ childNodes = InitialChildNodes
    /\ nodeValue = InitialNodeValue
    /\ pc = "start"
    /\ sweepCount = 0
    /\ observeCount = 0
    /\ pageNotified = FALSE
    /\ queue = <<>>
    /\ log = <<>>
    /\ uncaught = 0
    /\ hostOps = 0
    /\ unseenOps = 0

InitEngine ==
    /\ once = <<>>
    /\ twice = <<>>
    /\ stage = 0

\* the document when the script is injected: with or without its body
Init ==
    /\ InitDocument
    /\ documentBody \in {NULL, BodyElement}
    /\ text = <<>>
    /\ InitEngine

Next ==
    \/ Main
    \/ DOMContentLoadedSweep
    \/ DOMContentLoadedObserve
    \/ ObserverCallback
    \/ HostParseBody
    \/ HostAppendChild
    \/ HostSetData

Spec == Init /\ [][Next]_vars

\* the rewrite engine applied to every input
EngineInit ==
    /\ InitDocument
    /\ documentBody = BodyElement
    /\ text \in Inputs
    /\ InitEngine

EngineNext == Rewrite \/ RewriteAgain

EngineSpec == EngineInit /\ [][EngineNext]_vars

\* String.prototype.toLowerCase on one character
ToLowerCaseChar(ch) ==
    IF \E l \in DOMAIN ToUpperCaseMap : ToUpperCaseMap[l] = ch
    THEN CHOOSE l \in DOMAIN ToUpperCaseMap : ToUpperCaseMap[l] = ch
    ELSE ch

\* TEXT_TO_FIND with every choice of upper and lower case for its letters
CaseVariants ==
    { [k \in DOMAIN TEXT_TO_FIND |->
          IF k \in upper THEN Canonicalize(TEXT_TO_FIND[k])
          ELSE ToLowerCaseChar(TEXT_TO_FIND[k])] :
      upper \in SUBSET DOMAIN TEXT_TO_FIND }

\* the rewrite engine applied to every case variant of the phrase
CaseInit ==
    /\ InitDocument
    /\ documentBody = BodyElement
    /\ text \in CaseVariants
    /\ InitEngine

CaseSpec == CaseInit /\ [][EngineNext]_vars


\* the event loop runs the observer's callback whenever records are queued,
\* and the host stops after MaxHostOps mutations
FairSpec == Spec /\ WF_vars(ObserverCallback)

\* a host that also inserts comments and pairs of nodes, removes and moves
\* nodes and changes contenteditable attributes
LiveNext ==
    \/ Next
    \/ HostAppendOther
    \/ HostSetCommentData
    \/ HostRemoveChild
    \/ HostMoveChild
    \/ HostSetContentEditable

LiveSpec == Init /\ [][LiveNext]_vars

\* a host that also inserts forms whose tagName is shadowed
FaultNext == Next \/ HostAppendForm

FaultSpec == Init /\ [][FaultNext]_vars

(***************************************************************************)
(* Vocabulary of the properties.                                           *)
(***************************************************************************)
RECURSIVE AncestorSet(_)
AncestorSet(node) ==
    IF parentNode[node] = NULL THEN {}
    ELSE {parentNode[node]} \cup AncestorSet(parentNode[node])

TextUnits == {n \in DOMAIN nodeType : nodeType[n] = "TEXT_NODE"}

\* the text units of the subtree of root, root included
TextUnitsIn(root) == {t \in TextUnits : t = root \/ root \in AncestorSet(t)}

ExcludedAncestor(a) == ToUpperCase(tagName[a]) \in EXCLUDED_TAGS

Eligible(t) ==
    \A a \in AncestorSet(t) : ~ExcludedAncestor(a) /\ ~IsContentEditable(a)

SameLetter(a, b) ==
    \/ a = b
    \/ a \in DOMAIN ToUpperCaseMap /\ ToUpperCaseMap[a] = b
    \/ b \in DOMAIN ToUpperCaseMap /\ ToUpperCaseMap[b] = a

\* an occurrence of "Gulf of America", in any case, starts at index i of s
OccursAt(s, i) ==
    /\ i >= 1
    /\ i + Len(TEXT_TO_FIND) - 1 <= Len(s)
    /\ \A k \in 1..Len(TEXT_TO_FIND) : SameLetter(s[i + k - 1], TEXT_TO_FIND[k])

ContainsPhrase(s) == \E i \in 1..Len(s) : OccursAt(s, i)

Active == sweepCount > 0 /\ observeCount > 0

Uninitialized == sweepCount = 0 /\ observeCount = 0

\* a step of the observer's callback: records are queued and the host does
\* not move
CallbackStep == queue # <<>> /\ hostOps' = hostOps

\* a step of the content script (start-up code, listener or callback): the
\* host does not move
ScriptStep == hostOps' = hostOps /\ documentBody' = documentBody


C2_QuiescentComplete ==
    (Active /\ queue = <<>> /\ unseenOps = 0) =>
        \A t \in TextUnitsIn(BodyElement) :
            Eligible(t) => ~ContainsPhrase(nodeValue[t])

(***************************************************************************)
(* C3.  No double-fire: a batch made only of the notifications of the      *)
(* script's own writes is processed without a write and queues nothing,    *)
(* and the change feed eventually becomes and stays empty.                 *)
(***************************************************************************)
OwnNotificationsOnly ==
    /\ queue # <<>>
    /\ \A k \in DOMAIN queue : queue[k].by = "script"

\* the host has not set the data of unit t since the last batch
UntouchedByHost(t) ==
    \A j \in DOMAIN queue : queue[j].by = "host" => queue[j].target # t

\* C3: reprocessing the notification of an own write does not write the unit
\* again; a batch of own notifications queues nothing; the queue ends empty
C3_NoDoubleFire ==
    /\ [][CallbackStep =>
            \A i \in DOMAIN queue :
                (queue[i].by = "script" /\ UntouchedByHost(queue[i].target))
                    => nodeValue'[queue[i].target] = nodeValue[queue[i].target]]_vars
    /\ [][(OwnNotificationsOnly /\ CallbackStep)
            => (nodeValue' = nodeValue /\ queue' = <<>>)]_vars
    /\ <>[](queue = <<>>)

\* the notification of a write of the script is waiting in the queue
C3_Witness ==
    /\ OwnNotificationsOnly
    /\ \E k \in DOMAIN log : log[k].op = "write" /\ log[k].ev >= 1

(***************************************************************************)
(* C4.  When the callback processes an added-nodes event, every eligible   *)
(* text unit of the inserted subtree that holds the phrase is rewritten,   *)
(* and the event collects, reads and writes units of that subtree only.    *)
(***************************************************************************)
\* C4: an added-nodes event rewrites the eligible units of the added subtree
\* and touches no unit outside it
C4_InsertedSubtreeRewritten ==
    [][CallbackStep =>
        \A i \in DOMAIN queue :
            queue[i].type = "childList" =>
                \A j \in DOMAIN queue[i].addedNodes :
                    LET root == queue[i].addedNodes[j] IN
                    /\ \A t \in TextUnitsIn(root) :
                          (Eligible(t) /\ ContainsPhrase(nodeValue[t]))
                              => ~ContainsPhrase(nodeValue'[t])
                    /\ \A k \in DOMAIN log' :
                          log'[k].ev = i => log'[k].node \in TextUnitsIn(root)]_vars

(***************************************************************************)
(* C5.  When the callback processes a character-data event, it reads and   *)
(* writes the event's target only; an eligible target that holds the       *)
(* phrase is rewritten; and a batch of that one event leaves the value of  *)
(* every other node unchanged.                                             *)
(***************************************************************************)
\* C5: a character-data event rewrites its target and touches no other unit
C5_InPlaceEditRewritesThatUnitOnly ==
    [][CallbackStep =>
        \A i \in DOMAIN queue :
            queue[i].type = "characterData" =>
                LET t == queue[i].target IN
                /\ \A k \in DOMAIN log' : log'[k].ev = i => log'[k].node = t
                /\ (Eligible(t) /\ ContainsPhrase(nodeValue[t]))
                       => /\ ~ContainsPhrase(nodeValue'[t])
                          /\ \E k \in DOMAIN log' :
                                log'[k].op = "write" /\ log'[k].node = t
                /\ Len(queue) = 1 =>
                       \A u \in DOMAIN nodeValue :
                           u # t => nodeValue'[u] = nodeValue[u]]_vars

\* a character-data event of the host has just been processed with a write
\* to its target
C5_Witness ==
    /\ Active
    /\ \E k \in DOMAIN log :
          /\ log[k].op = "write"
          /\ log[k].ev >= 1
          /\ log[k].root = log[k].node

(***************************************************************************)
(* C6.  When the DOMContentLoaded listeners have run, the coordinator has  *)
(* swept the body and subscribed: it does not stay uninitialized.          *)
(***************************************************************************)
\* C6: once the start-up code and its listeners are done, the coordinator is
\* active
C6_ActiveAfterDocumentReady == pc = "done" => Active

(***************************************************************************)
(* C7.  No exception leaves the observer's callback.                       *)
(***************************************************************************)
\* C7: no exception has left the callback
C7_NoFaultLeavesTheCallback == uncaught = 0


SweptNotSubscribed == pc = "between" /\ sweepCount = 1 /\ observeCount = 0

C9_RewriteIdempotent ==
    /\ stage >= 1 => ~ContainsPhrase(once)
    /\ stage = 2 => twice = once

\* an input with an occurrence has been rewritten twice
C9_Witness == stage = 2 /\ ContainsPhrase(text) /\ once # text

(***************************************************************************)
(* C10.  rewrite against a reference that works on positions: the          *)
(* occurrences chosen left to right without overlap are each replaced by   *)
(* "Gulf of Mexico", every character outside them is kept in order, and an *)
(* input without an occurrence is returned as it is.                       *)
(***************************************************************************)
\* the occurrence at i is chosen when no chosen occurrence covers i
RECURSIVE Chosen(_, _)
Chosen(s, i) ==
    /\ OccursAt(s, i)
    /\ \A j \in (i - Len(TEXT_TO_FIND) + 1)..(i - 1) : ~Chosen(s, j)

ChosenSet(s) == {i \in 1..Len(s) : Chosen(s, i)}

\* how much shorter the output is per replaced occurrence
Shrink == Len(TEXT_TO_FIND) - Len(TEXT_TO_REPLACE_WITH)

IsRewriteOf(s, out) ==
    \E chosen \in {ChosenSet(s)} :
        LET covered(p) == \E c \in chosen : c <= p /\ p < c + Len(TEXT_TO_FIND)
            before(p) == Cardinality({c \in chosen : c + Len(TEXT_TO_FIND) <= p})
            place(p) == p - before(p) * Shrink
        IN  /\ Len(out) = Len(s) - Cardinality(chosen) * Shrink
            /\ \A p \in 1..Len(s) : ~covered(p) => out[place(p)] = s[p]
            /\ \A c \in chosen :
                   SubSeq(out, place(c), place(c) + Len(TEXT_TO_REPLACE_WITH) - 1)
                       = TEXT_TO_REPLACE_WITH
            /\ chosen = {} => out = s

\* C10: the output of rewrite is the reference's output
C10_RewriteMatchesReference == stage >= 1 => IsRewriteOf(text, once)

\* rewritten: an input with two occurrences, one at its start and one at
\* its end, of different case
C10_Witness ==
    /\ stage >= 1
    /\ Cardinality(ChosenSet(text)) = 2
    /\ OccursAt(text, 1)
    /\ OccursAt(text, Len(text) - Len(TEXT_TO_FIND) + 1)
    /\ SubSeq(text, 1, Len(TEXT_TO_FIND)) # SubSeq(text, Len(TEXT_TO_FIND) + 1, Len(text))

(***************************************************************************)
(* C11.  Case-insensitivity: every upper/lower-case variant of "Gulf of    *)
(* America" is matched, and each is rewritten to exactly "Gulf of Mexico", *)
(* whatever the case of the matched text.                                  *)
(***************************************************************************)
\* C11: the rewrite of any case variant of the phrase is "Gulf of Mexico"
C11_EveryCaseVariantRewritten ==
    /\ text \in CaseVariants => MatchesAt(text, 1)
    /\ (stage >= 1 /\ text \in CaseVariants) => once = TEXT_TO_REPLACE_WITH

\* rewritten: a variant that starts in lower case and goes on in upper case
C11_Witness ==
    /\ stage >= 1
    /\ text \in CaseVariants
    /\ text[1] = "g" /\ text[2] = "U" /\ text[9] = "a" /\ text[15] = "A"

(***************************************************************************)
(* C12.  Frame: a step of the script (start-up sweep, listener, callback   *)
(* on added nodes or on character data) leaves the set of nodes, the node  *)
(* types, parent links, child order, tags and contenteditable attributes   *)
(* as they were, and changes the value of text nodes it logged a write for *)
(* only.                                                                   *)
(***************************************************************************)
\* C12: a step of the script changes the values of written text nodes and
\* nothing else of the document
C12_OnlyTextValuesChange ==
    [][ScriptStep =>
        /\ nodeType' = nodeType
        /\ tagName' = tagName
        /\ contentEditable' = contentEditable
        /\ parentNode' = parentNode
        /\ childNodes' = childNodes
        /\ DOMAIN nodeValue' = DOMAIN nodeValue
        /\ \A n \in DOMAIN nodeValue :
               nodeValue'[n] # nodeValue[n] =>
                   /\ nodeType[n] = "TEXT_NODE"
                   /\ \E k \in DOMAIN log' :
                          log'[k].op = "write" /\ log'[k].node = n]_vars

\* the callback has swept an inserted element that has several children
\* and written one of its text nodes
C12_Witness ==
    \E k \in DOMAIN log :
        /\ log[k].op = "write"
        /\ log[k].ev >= 1
        /\ log[k].root # log[k].node
        /\ Len(childNodes[parentNode[log[k].node]]) >= 2

(***************************************************************************)
(* C13.  On both start paths the sweep of the body comes before the call   *)
(* of observe, and the host makes no mutation between the end of the sweep *)
(* and the call of observe.                                                *)
(***************************************************************************)
\* C13: never subscribed without having swept, and no host mutation between
\* the sweep and the subscription
C13_SweepThenSubscribeWithoutGap ==
    /\ observeCount > 0 => sweepCount > 0
    /\ unseenOps = 0

(***************************************************************************)
(* C14.  Every write of the script changes the value of its unit: a unit   *)
(* with a logged write holds another value after the step than before, it  *)
(* is written once in the step, and a unit that was read and found         *)
(* unchanged by replace gets no write and no record.                       *)
(***************************************************************************)
WritesTo(entries, n) ==
    {k \in DOMAIN entries : entries[k].op = "write" /\ entries[k].node = n}

\* C14: a written unit changes value, once; every record a step of the
\* script queues belongs to such a write
C14_WritesStrictlyChange ==
    [][ScriptStep =>
        /\ \A k \in DOMAIN log' :
               log'[k].op = "write" =>
                   /\ nodeValue'[log'[k].node] # nodeValue[log'[k].node]
                   /\ Cardinality(WritesTo(log', log'[k].node)) = 1
        /\ queue' # queue =>
               \A j \in DOMAIN queue' :
                   /\ queue'[j].by = "script"
                   /\ WritesTo(log', queue'[j].target) # {}]_vars

\* one batch: a unit was written, and another was read, found equal to its
\* rewrite and left alone
C14_Witness ==
    /\ Active
    /\ \E k \in DOMAIN log : log[k].op = "write" /\ log[k].ev >= 1
    /\ \E k \in DOMAIN log :
          /\ log[k].op = "read"
          /\ log[k].ev >= 1
          /\ WritesTo(log, log[k].node) = {}

(***************************************************************************)
(* C15.  Two-phase sweep: in the log of one sweep (start-up sweep or one   *)
(* added node) every collect comes before the first read or write; the     *)
(* units collected are the text units below the root, each once, in        *)
(* document order; and the units then read are the collected ones that the *)
(* filter lets through.                                                    *)
(***************************************************************************)
\* where node n is: the child indices from the top of its tree down to n
RECURSIVE PathTo(_)
PathTo(n) ==
    IF parentNode[n] = NULL THEN <<>>
    ELSE Append(PathTo(parentNode[n]),
                CHOOSE i \in DOMAIN childNodes[parentNode[n]] :
                    childNodes[parentNode[n]][i] = n)

\* path p comes before path q in a pre-order walk
PathBefore(p, q) ==
    \/ Len(p) < Len(q) /\ SubSeq(q, 1, Len(p)) = p
    \/ \E i \in DOMAIN p \cap DOMAIN q :
          /\ SubSeq(p, 1, i - 1) = SubSeq(q, 1, i - 1)
          /\ p[i] < q[i]

\* the entries of the sweep of root for event ev
SweepEntries(ev, root) ==
    {k \in DOMAIN log : log[k].ev = ev /\ log[k].root = root
                          /\ log[k].root # log[k].node}

Sweeps == {<<log[k].ev, log[k].root>> : k \in {j \in DOMAIN log : log[j].op = "collect"}}

\* C15: collect everything first and in document order, then process
\* exactly what was collected
C15_CollectThenWrite ==
    \A sw \in Sweeps :
        LET entries == SweepEntries(sw[1], sw[2])
            collects == {k \in entries : log[k].op = "collect"}
            collected == {log[k].node : k \in collects}
        IN  /\ \A i \in collects, j \in entries \ collects : i < j
            /\ collected = TextUnitsIn(sw[2]) \ {sw[2]}
            /\ Cardinality(collects) = Cardinality(collected)
            /\ \A i \in collects, j \in collects :
                   i < j => PathBefore(PathTo(log[i].node), PathTo(log[j].node))
            /\ {log[k].node : k \in {j \in entries : log[j].op = "read"}}
                   = {t \in collected : shouldSkipNode(t) = "false"}
            /\ \A i \in entries, j \in entries :
                   (i < j /\ log[i].op = "read" /\ log[j].op = "read")
                       => PathBefore(PathTo(log[i].node), PathTo(log[j].node))

\* the callback has swept an added element: two text units collected, the
\* first of them written
C15_Witness ==
    \E sw \in Sweeps :
        LET entries == SweepEntries(sw[1], sw[2]) IN
        /\ sw[1] >= 1
        /\ Cardinality({k \in entries : log[k].op = "collect"}) >= 2
        /\ \E i \in entries, j \in entries :
              /\ log[i].op = "collect" /\ log[j].op = "write"
              /\ log[i].node = log[j].node
              /\ \E k \in entries : log[k].op = "collect" /\ i < k

(***************************************************************************)
(* C16.  One batch: the callback handles the records in the order of       *)
(* delivery and one after the other.  In the log of a callback step the    *)
(* entries of record i all come before those of record i+1; within a       *)
(* record the sweeps of its added nodes come in the order of addedNodes;   *)
(* a characterData record touches its target only; every record is         *)
(* handled; and the step handles the records of its batch only: what its   *)
(* writes queue is left for the next batch.                                *)
(***************************************************************************)
PositionIn(seq, x) == CHOOSE i \in DOMAIN seq : seq[i] = x

\* the text units checkAndReplaceInTextNode reads below root
ReadableBelow(root) ==
    {t \in TextUnitsIn(root) \ {root} : shouldSkipNode(t) = "false"}

\* root is handed to the walker by processNodes
Swept(root) ==
    ~(/\ nodeType[root] = "ELEMENT_NODE"
      /\ (ExcludedAncestor(root) \/ IsContentEditable(root)))

\* C16: records in delivery order, one at a time, all of them, and of this
\* batch only
C16_InOrderAndAtomic ==
    [][CallbackStep =>
        /\ \A k \in DOMAIN log' : log'[k].ev \in DOMAIN queue
        /\ \A a \in DOMAIN log', b \in DOMAIN log' :
               a < b =>
                   /\ log'[a].ev <= log'[b].ev
                   /\ (log'[a].ev = log'[b].ev
                        /\ queue[log'[a].ev].type = "childList")
                       => PositionIn(queue[log'[a].ev].addedNodes, log'[a].root)
                            <= PositionIn(queue[log'[a].ev].addedNodes, log'[b].root)
        /\ \A i \in DOMAIN queue :
               IF queue[i].type = "characterData"
               THEN /\ \A k \in DOMAIN log' :
                          log'[k].ev = i => log'[k].node = queue[i].target
                    /\ shouldSkipNode(queue[i].target) = "false" =>
                          \E k \in DOMAIN log' :
                              log'[k].ev = i /\ log'[k].op = "read"
               ELSE /\ \A k \in DOMAIN log' :
                          log'[k].ev = i =>
                              \E j \in DOMAIN queue[i].addedNodes :
                                  queue[i].addedNodes[j] = log'[k].root
                    /\ \A j \in DOMAIN queue[i].addedNodes :
                          LET root == queue[i].addedNodes[j] IN
                          Swept(root) =>
                              \A t \in ReadableBelow(root) :
                                  \E k \in DOMAIN log' :
                                      /\ log'[k].ev = i /\ log'[k].root = root
                                      /\ log'[k].node = t /\ log'[k].op = "read"
        /\ \A j \in DOMAIN queue' : queue'[j].by = "script"]_vars

\* one batch of two records has been handled: both nodes added by the first
\* were swept with a write each, then the second record led to a write
C16_Witness ==
    \E a \in DOMAIN log, b \in DOMAIN log, c \in DOMAIN log :
        /\ log[a].op = "write" /\ log[b].op = "write" /\ log[c].op = "write"
        /\ log[a].ev = log[b].ev
        /\ log[a].root # log[b].root
        /\ log[c].ev > log[a].ev

(***************************************************************************)
(* C17.  The early exits of the sweep.  A sweep whose root is an element   *)
(* with an excluded tag or a content-editable element, and a sweep of a    *)
(* node that is neither element nor text (a comment), collect, read and    *)
(* write nothing and throw nothing; so does the sweep of a missing root,   *)
(* and the start-up code without a body writes nothing.  The batch as a    *)
(* whole ends with the values and the writes that a sweep without the      *)
(* root check, filtering unit by unit, would give.                         *)
(***************************************************************************)
\* the sweep with per-unit filtering alone
SweepPerUnit(st, rootNode, ev) ==
    IF rootNode = NULL THEN st
    ELSE CHOOSE last \in
             {ForEachNode(
                  [st EXCEPT !.log = @ \o [k \in DOMAIN nodesToModify |->
                       LogEntry("collect", nodesToModify[k], ev, rootNode)]],
                  nodesToModify, ev, rootNode) :
                nodesToModify \in {TreeWalkerNodes(rootNode)}} :
             TRUE

RECURSIVE ForEachAddedPerUnit(_, _, _)
ForEachAddedPerUnit(st, addedNodes, ev) ==
    IF addedNodes = <<>> \/ st.thrown THEN st
    ELSE CHOOSE last \in
             {ForEachAddedPerUnit(next, Tail(addedNodes), ev) :
                next \in {SweepPerUnit(st, Head(addedNodes), ev)}} :
             TRUE

RECURSIVE BatchPerUnit(_, _, _)
BatchPerUnit(st, mutationsList, ev) ==
    IF ev > Len(mutationsList) \/ st.thrown THEN st
    ELSE LET mutation == mutationsList[ev] IN
         CHOOSE last \in
             {BatchPerUnit(next, mutationsList, ev + 1) :
                next \in {IF mutation.type = "childList"
                          THEN ForEachAddedPerUnit(st, mutation.addedNodes, ev)
                          ELSE checkAndReplaceInTextNode(st, mutation.target, ev,
                                                         mutation.target)}} :
             TRUE

WritesOf(entries) ==
    SelectSeq(entries, LAMBDA e : e.op = "write")

\* the sweep leaves at once for this root
EarlyExitRoot(root) ==
    \/ /\ nodeType[root] = "ELEMENT_NODE"
       /\ (ExcludedAncestor(root) \/ IsContentEditable(root))
    \/ nodeType[root] \notin {"ELEMENT_NODE", "TEXT_NODE"}

\* C17: excluded, missing and other roots: nothing collected, read or
\* written, nothing thrown, and the same writes as filtering unit by unit
C17_RootLevelExit ==
    /\ [](processNodes(StartOfRun, NULL, 0) = StartOfRun)
    /\ [][(ScriptStep /\ documentBody = NULL)
            => (nodeValue' = nodeValue /\ uncaught' = uncaught)]_vars
    /\ [][CallbackStep =>
            /\ \A i \in DOMAIN queue :
                   \A j \in DOMAIN queue[i].addedNodes :
                       LET root == queue[i].addedNodes[j] IN
                       EarlyExitRoot(root) =>
                           /\ \A k \in DOMAIN log' :
                                  ~(log'[k].ev = i /\ log'[k].root = root)
                           /\ processNodes(StartOfRun, root, i) = StartOfRun
            /\ (\A i \in DOMAIN queue :
                    /\ queue[i].type = "childList"
                    /\ \A j \in DOMAIN queue[i].addedNodes :
                           EarlyExitRoot(queue[i].addedNodes[j]))
                   => (nodeValue' = nodeValue /\ uncaught' = uncaught)
            /\ \E ref \in {BatchPerUnit(StartOfRun, queue, 1)} :
                   /\ nodeValue' = ref.value
                   /\ WritesOf(log') = WritesOf(ref.log)
                   /\ queue' = ref.out]_vars

\* a batch of two records has been handled: the first, the insertion of an
\* svg element whose text holds the phrase, left no trace; the second did
C17_Witness ==
    /\ Active
    /\ hostOps = 2
    /\ \E k \in DOMAIN log : log[k].ev = 2
    /\ \A k \in DOMAIN log : log[k].ev # 1
    /\ \E n \in DOMAIN nodeType :
          /\ tagName[n] = TagSvg
          /\ IsConnected(n)
          /\ ~IsContentEditable(n)
          /\ \A a \in AncestorSet(n) : ~ExcludedAncestor(a)
          /\ ContainsPhrase(nodeValue[childNodes[n][1]])

(***************************************************************************)
(* C18.  Quiescent completeness for units that become eligible in place.   *)
(* A text unit of the initial document that still sits where it sat, below *)
(* ancestors that still sit where they sat, is eligible as soon as the     *)
(* host removes what excluded it; when the coordinator is active and the   *)
(* change feed is empty, no such unit holds the phrase.                    *)
(***************************************************************************)
\* node t and its ancestors are where the initial document has them
InPlace(t) ==
    \A a \in {t} \cup AncestorSet(t) :
        a \in DOMAIN InitialParentNode /\ parentNode[a] = InitialParentNode[a]

\* C18: active and quiescent, no unit that became eligible in place holds
\* the phrase
C18_EligibilityChangeCovered ==
    (Active /\ queue = <<>> /\ unseenOps = 0) =>
        \A t \in TextUnitsIn(BodyElement) :
            (InPlace(t) /\ Eligible(t)) => ~ContainsPhrase(nodeValue[t])

(***************************************************************************)
(* C19.  Every write of the script goes to a text node: the sweep collects *)
(* text nodes only, and a characterData record whose target is a comment   *)
(* leads to no write.                                                      *)
(***************************************************************************)
\* C19: every logged write and every collect is on a text node
C19_WritesOnlyTextNodes ==
    \A k \in DOMAIN log :
        log[k].op \in {"write", "collect"} => nodeType[log[k].node] = "TEXT_NODE"

(***************************************************************************)
(* C20.  Every write of the callback goes to a unit that is below the      *)
(* observed body when it is written, and that is eligible by the ancestors *)
(* it has then.                                                            *)
(***************************************************************************)
\* C20: a unit written by the callback is, then, below the body and
\* eligible
C20_WritesBelowObservedRoot ==
    \A k \in DOMAIN log :
        (log[k].op = "write" /\ log[k].ev >= 1) =>
            /\ IsInclusiveDescendant(log[k].node, BodyElement)
            /\ shouldSkipNode(log[k].node) = "false"

====
